---- MODULE Spec2Model ----
(***************************************************************************)
(* Model of src/monitor.py: the abiraterone monitor.                       *)
(*                                                                         *)
(* One run of main() loads state.json, checks the sources selected by      *)
(* CHECK_SOURCE (check_eliky, then check_unci), and saves the state.       *)
(*                                                                         *)
(*   Spec         runs one after the other, the clock moving between them  *)
(*   SpecFiles    runs over a state file of any shape, save_state in the   *)
(*                steps of the file system, the process interruptible      *)
(*   SpecCheck    one check of one source on any stored document           *)
(*   SpecOverlap  the runs of two jobs interleaved on one state file       *)
(*                                                                         *)
(* Strings of the program are TLA+ strings.  hashlib.md5 is taken to be    *)
(* injective, so a fingerprint is the joined string make_id hashes.        *)
(* The id lists of the state document are kept as sets: the code turns     *)
(* them into a set on entry (set(state[...])) and stores list(known),       *)
(* whose order is unspecified.                                             *)
(***************************************************************************)
EXTENDS Integers, Sequences, FiniteSets, TLC

\* ---------------------------------------------------------------- bounds
MaxRecs      == 2  \* longest record list a fetch returns
LastTick     == 5  \* the clock runs over the instants 0..LastTick
WeeksPerYear == 2  \* ISO weeks in a year of the model's calendar (52 or 53 in the real one)
MaxRuns      == 3  \* runs of main() started where runs overlap (SpecOverlap)

\* ---------------------------------------------------------------- constants
FRIDAY == 4        \* datetime.weekday() of Friday (is_friday)

VARIABLES
  clock,        \* datetime.now(timezone.utc), an instant of the model's calendar
  disk,         \* state.json: [exists, data]
  pc,           \* position of the run of main(): idle, if_eliky, eliky, if_unci, unci, save, done
                \* (SpecFiles adds dump, aborted, killed; SpecOverlap keeps one per process)
  CHECK_SOURCE, \* the source selector of the running process
  state,        \* main's local `state`
  loaded,       \* history: the document load_state returned to this run
  steps,        \* history: the calls main has made in this run, with their outcomes
  last,         \* history: what the check made by the last step fetched and sent
  attempts,     \* history: send_telegram calls per <<source, fingerprint>>, all runs, whether
                \* they returned or raised (capped at 2)
  found_since   \* history: ISO <<year, week>> in which unci_found_this_week was last set True

vars == <<clock, disk, pc, CHECK_SOURCE, state, loaded, steps, last, attempts, found_since>>

\* ---------------------------------------------------------------- the calendar
\* Two instants a week, its Thursday and its Friday (the days the unci job is scheduled);
\* week numbers 1..WeeksPerYear repeat every year.
isocalendar(now) ==
  [year    |-> (now \div 2) \div WeeksPerYear,
   week    |-> ((now \div 2) % WeeksPerYear) + 1,
   weekday |-> FRIDAY - 1 + (now % 2)]

\* ---------------------------------------------------------------- inputs
Selectors == {"eliky", "unci", "all", "none"}

ElikyRecords ==
  { [region |-> "Kyiv", form |-> "tab", hospital |-> "X", quantity |-> "5", date |-> "01.01"],
    [region |-> "Lviv", form |-> "tab", hospital |-> "Y", quantity |-> "3", date |-> "01.01"],
    [region |-> "Lviv", form |-> "caps", hospital |-> "X", quantity |-> "5", date |-> "01.01"] }

UnciRecords ==
  { [name |-> "Abiraterone", subst |-> "abiraterone", storage |-> "A", order |-> "1",
     unit |-> "pack", quantity |-> "7", expiry |-> "12.27", form |-> "tab", batch |-> "B1"] }

Markers == {"", "v1", "v2"}

RECURSIVE SeqsUpTo(_, _)
SeqsUpTo(S, n) ==
  IF n = 0 THEN {<<>>}
  ELSE LET shorter == SeqsUpTo(S, n - 1)
       IN  shorter \cup {Append(s, x) : s \in {t \in shorter : Len(t) = n - 1}, x \in S}

\* What a fetch returns: status "error" when it raises.
ElikyFetches ==
  {[status |-> "error", update_date |-> "", records |-> <<>>]}
  \cup {[status |-> "ok", update_date |-> "", records |-> rs] : rs \in SeqsUpTo(ElikyRecords, MaxRecs)}

UnciFetches ==
  {[status |-> "error", update_date |-> "", records |-> <<>>]}
  \cup {[status |-> "ok", update_date |-> m, records |-> rs] :
          m \in Markers, rs \in SeqsUpTo(UnciRecords, MaxRecs)}

\* ---------------------------------------------------------------- helpers
RECURSIVE join(_, _)
join(sep, parts) ==
  IF parts = <<>> THEN ""
  ELSE IF Len(parts) = 1 THEN parts[1]
  ELSE parts[1] \o sep \o join(sep, Tail(parts))

make_id(parts) == join("|", parts)

current_week(now) == isocalendar(now).week

is_friday(now) == isocalendar(now).weekday = FRIDAY

default_state ==
  [eliky_ids |-> {}, unci_ids |-> {}, unci_update_date |-> "",
   unci_found_this_week |-> FALSE, unci_week_number |-> 0]

\* state.json: [exists, data], data being the text of the file as json.load reads it.
\* A JSON object is the record of its members, a bare JSON list l is json_list(l), and a
\* text json.load rejects (an empty file, a document cut short) is not_json(text).
json_list(l) == [list |-> l]

not_json(text) == [text |-> text]

isinstance_list(data) == DOMAIN data = {"list"}

\* json.load raises on this file.
json_load_raises(file) == file.exists /\ DOMAIN file.data = {"text"}

\* d[key] = val of a dict: the key is added when the dict lacks it.
put(d, key, val) == [k \in DOMAIN d \cup {key} |-> IF k = key THEN val ELSE d[k]]

\* d.get(key, val)
get(d, key, val) == IF key \in DOMAIN d THEN d[key] ELSE val

setdefault(d, key, val) == IF key \in DOMAIN d THEN d ELSE put(d, key, val)

\* What load_state gives main when json.load raises: no document, the exception.
JSONDecodeError == [error |-> "JSONDecodeError"]

\* Variant: load_state catches the exception of json.load and returns the default state.
load_state_or_default(file) ==
  IF file.exists /\ ~json_load_raises(file)
  THEN LET data == IF isinstance_list(file.data)
                   THEN [eliky_ids |-> file.data.list, unci_ids |-> {}, unci_update_date |-> ""]
                   ELSE file.data
       IN  setdefault(setdefault(data, "unci_found_this_week", FALSE), "unci_week_number", 0)
  ELSE default_state

\* Variant: line 50 starts a legacy list over with empty ledgers.
load_state_list_dropped(file) ==
  IF file.exists
  THEN IF json_load_raises(file) THEN JSONDecodeError
       ELSE LET data == IF isinstance_list(file.data)
                        THEN [eliky_ids |-> {}, unci_ids |-> {}, unci_update_date |-> ""]
                        ELSE file.data
            IN  setdefault(setdefault(data, "unci_found_this_week", FALSE),
                           "unci_week_number", 0)
  ELSE default_state

\* A file written by save_state holds every field, so lines 49-53 change nothing in it.
load_state(file) ==
  IF file.exists
  THEN IF json_load_raises(file) THEN JSONDecodeError
       ELSE LET data == IF isinstance_list(file.data)
                        THEN [eliky_ids |-> file.data.list, unci_ids |-> {}, unci_update_date |-> ""]
                        ELSE file.data
            IN  setdefault(setdefault(data, "unci_found_this_week", FALSE),
                           "unci_week_number", 0)
  ELSE default_state

\* Variant: save_state reads the file again and keeps the fingerprints it finds there.
save_state_merged(st) ==
  [exists |-> TRUE,
   data   |-> [st EXCEPT !.eliky_ids = @ \cup disk.data.eliky_ids,
                         !.unci_ids = @ \cup disk.data.unci_ids]]

save_state(st) == [exists |-> TRUE, data |-> st]

\* A send_telegram call: the fingerprint it is about ("" for the page message) and
\* whether it returned (ok) or raised.
Sent(kind, rid, ok) == [kind |-> kind, rid |-> rid, ok |-> ok]

eliky_id(rec) == make_id(<<rec.hospital, rec.quantity, rec.date>>)

\* Variant: line 255 leaves update_date out of the fingerprint.
unci_id_without_marker(rec, update_date) ==
  make_id(<<rec.name, rec.quantity, rec.expiry, rec.batch>>)

unci_id(rec, update_date) ==
  make_id(<<rec.name, rec.quantity, rec.expiry, rec.batch, update_date>>)

\* ---------------------------------------------------------------- check_eliky
\* The loop over the fetched records.  delivered is what the calls of send_telegram do,
\* in the order they are made: TRUE when the call returns, FALSE when it raises.
\* Variant: known.add(rid) of line 140 is inside the try, after send_telegram.
RECURSIVE check_eliky_loop_add_if_sent(_, _, _, _)
check_eliky_loop_add_if_sent(records, delivered, known, sent) ==
  IF records = <<>> THEN [known |-> known, sent |-> sent]
  ELSE LET rid == eliky_id(Head(records)) IN
       IF rid \notin known
       THEN check_eliky_loop_add_if_sent(
              Tail(records), Tail(delivered),
              IF Head(delivered) THEN known \cup {rid} ELSE known,
              Append(sent, Sent("record", rid, Head(delivered))))
       ELSE check_eliky_loop_add_if_sent(Tail(records), delivered, known, sent)

RECURSIVE check_eliky_loop(_, _, _, _)
check_eliky_loop(records, delivered, known, sent) ==
  IF records = <<>> THEN [known |-> known, sent |-> sent]
  ELSE LET rid == eliky_id(Head(records)) IN
       IF rid \notin known
       THEN check_eliky_loop(Tail(records), Tail(delivered), known \cup {rid},
                             Append(sent, Sent("record", rid, Head(delivered))))
       ELSE check_eliky_loop(Tail(records), delivered, known, sent)

\* Variant: line 143 stores only the ids found new in this check.
check_eliky_new_only(st, fetch, delivered) ==
  LET known == st.eliky_ids IN
  IF fetch.status = "error"
  THEN [state |-> st, outcome |-> "error", sent |-> <<>>]
  ELSE LET r == check_eliky_loop(fetch.records, delivered, known, <<>>)
       IN  [state |-> [st EXCEPT !.eliky_ids = r.known \ known], outcome |-> "ok", sent |-> r.sent]

\* Variant: line 143 is missing, the ledger of the state is never updated.
check_eliky_not_stored(st, fetch, delivered) ==
  LET known == st.eliky_ids IN
  IF fetch.status = "error"
  THEN [state |-> st, outcome |-> "error", sent |-> <<>>]
  ELSE LET r == check_eliky_loop(fetch.records, delivered, known, <<>>)
       IN  [state |-> st, outcome |-> "ok", sent |-> r.sent]

check_eliky(st, fetch, delivered) ==
  LET known == st.eliky_ids IN
  IF fetch.status = "error"
  THEN [state |-> st, outcome |-> "error", sent |-> <<>>]
  ELSE LET r == check_eliky_loop(fetch.records, delivered, known, <<>>)
       IN  [state |-> [st EXCEPT !.eliky_ids = r.known], outcome |-> "ok", sent |-> r.sent]

\* ---------------------------------------------------------------- check_unci
\* Variant: the is_friday() test of line 207 is missing.
should_skip_unci_any_day(st, now) ==
  LET week == current_week(now)
      st1  == IF st.unci_week_number # week
              THEN [st EXCEPT !.unci_found_this_week = FALSE, !.unci_week_number = week]
              ELSE st
  IN  [skip |-> st1.unci_found_this_week, state |-> st1]

\* Variant: line 204 is missing, a new week only updates the week number.
should_skip_unci_keep_found(st, now) ==
  LET week == current_week(now)
      st1  == IF st.unci_week_number # week
              THEN [st EXCEPT !.unci_week_number = week]
              ELSE st
  IN  [skip |-> is_friday(now) /\ st1.unci_found_this_week, state |-> st1]

\* Variant: line 205 is missing, a new week resets the flag without storing the week.
should_skip_unci_week_not_stored(st, now) ==
  LET week == current_week(now)
      st1  == IF st.unci_week_number # week
              THEN [st EXCEPT !.unci_found_this_week = FALSE]
              ELSE st
  IN  [skip |-> is_friday(now) /\ st1.unci_found_this_week, state |-> st1]

should_skip_unci(st, now) ==
  LET week == current_week(now)
      st1  == IF st.unci_week_number # week
              THEN [st EXCEPT !.unci_found_this_week = FALSE, !.unci_week_number = week]
              ELSE st
  IN  [skip |-> is_friday(now) /\ st1.unci_found_this_week, state |-> st1]

\* Variant: the test of last_update is missing.
site_updated_first_too(update_date, last_update) ==
  update_date # "" /\ update_date # last_update

\* The condition of lines 232 and 239.
site_updated(update_date, last_update) ==
  update_date # "" /\ update_date # last_update /\ last_update # ""

\* Variant: line 273 (known.add) is missing.
RECURSIVE check_unci_loop_no_add(_, _, _, _, _)
check_unci_loop_no_add(records, update_date, delivered, known, sent) ==
  IF records = <<>> THEN [known |-> known, sent |-> sent]
  ELSE LET rid == unci_id(Head(records), update_date) IN
       IF rid \notin known
       THEN check_unci_loop_no_add(Tail(records), update_date, Tail(delivered), known,
                                   Append(sent, Sent("record", rid, Head(delivered))))
       ELSE check_unci_loop_no_add(Tail(records), update_date, delivered, known, sent)

\* Variant: line 254 walks the list from its end, for rec in reversed(records).
RECURSIVE check_unci_loop_reversed(_, _, _, _, _)
check_unci_loop_reversed(records, update_date, delivered, known, sent) ==
  IF records = <<>> THEN [known |-> known, sent |-> sent]
  ELSE LET rid  == unci_id(records[Len(records)], update_date)
           rest == SubSeq(records, 1, Len(records) - 1)
       IN  IF rid \notin known
           THEN check_unci_loop_reversed(rest, update_date, Tail(delivered), known \cup {rid},
                                         Append(sent, Sent("record", rid, Head(delivered))))
           ELSE check_unci_loop_reversed(rest, update_date, delivered, known, sent)

RECURSIVE check_unci_loop(_, _, _, _, _)
check_unci_loop(records, update_date, delivered, known, sent) ==
  IF records = <<>> THEN [known |-> known, sent |-> sent]
  ELSE LET rid == unci_id(Head(records), update_date) IN
       IF rid \notin known
       THEN check_unci_loop(Tail(records), update_date, Tail(delivered), known \cup {rid},
                            Append(sent, Sent("record", rid, Head(delivered))))
       ELSE check_unci_loop(Tail(records), update_date, delivered, known, sent)

\* Variant: line 249 is missing, the branch of no records returns without storing the
\* page marker.
check_unci_marker_not_stored(st, now, fetch, delivered) ==
  LET gate        == should_skip_unci(st, now)
      s0          == gate.state
      known       == s0.unci_ids
      last_update == s0.unci_update_date
      update_date == fetch.update_date
      records     == fetch.records
      raise       == site_updated(update_date, last_update)
      s1          == IF raise
                     THEN [s0 EXCEPT !.unci_found_this_week = TRUE,
                                     !.unci_week_number = current_week(now)]
                     ELSE s0
  IN
  IF gate.skip
  THEN [state |-> s0, outcome |-> "skip", fetched |-> FALSE, sent |-> <<>>, raised |-> FALSE]
  ELSE IF fetch.status = "error"
  THEN [state |-> s0, outcome |-> "error", fetched |-> TRUE, sent |-> <<>>, raised |-> FALSE]
  ELSE IF records = <<>>
  THEN [state   |-> s1,
        outcome |-> "ok",
        fetched |-> TRUE,
        sent    |-> IF site_updated(update_date, last_update)
                    THEN <<Sent("page", "", Head(delivered))>>
                    ELSE <<>>,
        raised  |-> raise]
  ELSE LET r == check_unci_loop(records, update_date, delivered, known, <<>>)
       IN  [state   |-> [s1 EXCEPT !.unci_ids = r.known, !.unci_update_date = update_date],
            outcome |-> "ok",
            fetched |-> TRUE,
            sent    |-> r.sent,
            raised  |-> raise]

\* Variant: the except branch of line 225 forgets the page marker.
check_unci_error_forgets(st, now, fetch, delivered) ==
  LET gate        == should_skip_unci(st, now)
      s0          == gate.state
      known       == s0.unci_ids
      last_update == s0.unci_update_date
      update_date == fetch.update_date
      records     == fetch.records
      raise       == site_updated(update_date, last_update)
      s1          == IF raise
                     THEN [s0 EXCEPT !.unci_found_this_week = TRUE,
                                     !.unci_week_number = current_week(now)]
                     ELSE s0
  IN
  IF gate.skip
  THEN [state |-> s0, outcome |-> "skip", fetched |-> FALSE, sent |-> <<>>, raised |-> FALSE]
  ELSE IF fetch.status = "error"
  THEN [state |-> [s0 EXCEPT !.unci_update_date = ""], outcome |-> "error", fetched |-> TRUE,
        sent |-> <<>>, raised |-> FALSE]
  ELSE IF records = <<>>
  THEN [state   |-> [s1 EXCEPT !.unci_update_date = update_date],
        outcome |-> "ok",
        fetched |-> TRUE,
        sent    |-> IF site_updated(update_date, last_update)
                    THEN <<Sent("page", "", Head(delivered))>>
                    ELSE <<>>,
        raised  |-> raise]
  ELSE LET r == check_unci_loop(records, update_date, delivered, known, <<>>)
       IN  [state   |-> [s1 EXCEPT !.unci_ids = r.known, !.unci_update_date = update_date],
            outcome |-> "ok",
            fetched |-> TRUE,
            sent    |-> r.sent,
            raised  |-> raise]

\* Variant: lines 249 and 278 keep the stored marker when the page shows none.
check_unci_keep_marker_if_empty(st, now, fetch, delivered) ==
  LET gate        == should_skip_unci(st, now)
      s0          == gate.state
      known       == s0.unci_ids
      last_update == get(s0, "unci_update_date", "")
      update_date == fetch.update_date
      records     == fetch.records
      raise       == site_updated(update_date, last_update)
      s1          == IF raise
                     THEN [s0 EXCEPT !.unci_found_this_week = TRUE,
                                     !.unci_week_number = current_week(now)]
                     ELSE s0
      kept        == IF update_date = "" THEN last_update ELSE update_date
  IN
  IF gate.skip
  THEN [state |-> s0, outcome |-> "skip", fetched |-> FALSE, sent |-> <<>>, raised |-> FALSE]
  ELSE IF fetch.status = "error"
  THEN [state |-> s0, outcome |-> "error", fetched |-> TRUE, sent |-> <<>>, raised |-> FALSE]
  ELSE IF records = <<>>
  THEN [state   |-> put(s1, "unci_update_date", kept),
        outcome |-> "ok",
        fetched |-> TRUE,
        sent    |-> IF site_updated(update_date, last_update)
                    THEN <<Sent("page", "", Head(delivered))>>
                    ELSE <<>>,
        raised  |-> raise]
  ELSE LET r == check_unci_loop(records, update_date, delivered, known, <<>>)
       IN  [state   |-> put(put(s1, "unci_ids", r.known), "unci_update_date", kept),
            outcome |-> "ok",
            fetched |-> TRUE,
            sent    |-> r.sent,
            raised  |-> raise]

\* fetch is what fetch_unci returns if it is called; fetched: line 224 was executed;
\* raised: line 234 was executed.
check_unci(st, now, fetch, delivered) ==
  LET gate        == should_skip_unci(st, now)
      s0          == gate.state
      known       == s0.unci_ids
      last_update == get(s0, "unci_update_date", "")
      update_date == fetch.update_date
      records     == fetch.records
      raise       == site_updated(update_date, last_update)
      s1          == IF raise
                     THEN [s0 EXCEPT !.unci_found_this_week = TRUE,
                                     !.unci_week_number = current_week(now)]
                     ELSE s0
  IN
  IF gate.skip
  THEN [state |-> s0, outcome |-> "skip", fetched |-> FALSE, sent |-> <<>>, raised |-> FALSE]
  ELSE IF fetch.status = "error"
  THEN [state |-> s0, outcome |-> "error", fetched |-> TRUE, sent |-> <<>>, raised |-> FALSE]
  ELSE IF records = <<>>
  THEN [state   |-> put(s1, "unci_update_date", update_date),
        outcome |-> "ok",
        fetched |-> TRUE,
        sent    |-> IF site_updated(update_date, last_update)
                    THEN <<Sent("page", "", Head(delivered))>>
                    ELSE <<>>,
        raised  |-> raise]
  ELSE LET r == check_unci_loop(records, update_date, delivered, known, <<>>)
       IN  [state   |-> put(put(s1, "unci_ids", r.known), "unci_update_date", update_date),
            outcome |-> "ok",
            fetched |-> TRUE,
            sent    |-> r.sent,
            raised  |-> raise]

\* ---------------------------------------------------------------- history bookkeeping
NoFetch == [status |-> "none", update_date |-> "", records |-> <<>>]

NoCheck == [src |-> "", fetch |-> NoFetch, outcome |-> "", sent |-> <<>>]

Step(call, outcome) == [call |-> call, outcome |-> outcome]

Keys(src, sent) == {<<src, sent[i].rid>> : i \in {j \in DOMAIN sent : sent[j].kind = "record"}}

Count(src, sent, key) ==
  Cardinality({i \in DOMAIN sent : sent[i].kind = "record" /\ <<src, sent[i].rid>> = key})

Min(a, b) == IF a < b THEN a ELSE b

Record(src, sent) ==
  attempts' = [k \in DOMAIN attempts \cup Keys(src, sent) |->
                    Min(2, (IF k \in DOMAIN attempts THEN attempts[k] ELSE 0) + Count(src, sent, k))]

None == <<>>

\* What the calls of send_telegram of one check can do: one outcome for each call the
\* check makes.
AllDelivered == [i \in 1..(MaxRecs + 1) |-> TRUE]

Deliveries(n) == [1..n -> BOOLEAN]

\* ---------------------------------------------------------------- the run of main()
Init ==
  /\ clock = 0
  /\ disk = [exists |-> FALSE, data |-> default_state]
  /\ pc = "idle"
  /\ CHECK_SOURCE = "none"
  /\ state = default_state
  /\ loaded = default_state
  /\ steps = <<>>
  /\ last = NoCheck
  /\ attempts = <<>>
  /\ found_since = None

\* Time passes between two runs.
Tick ==
  /\ pc = "idle"
  /\ \E now \in 0..LastTick : now > clock /\ clock' = now
  /\ UNCHANGED <<disk, pc, CHECK_SOURCE, state, loaded, steps, last,
                 attempts, found_since>>

\* main, line 285: the process starts with its CHECK_SOURCE and loads the state.
MainLoad ==
  /\ pc = "idle"
  /\ load_state(disk) # JSONDecodeError
  /\ \E sel \in Selectors : CHECK_SOURCE' = sel
  /\ state' = load_state(disk)
  /\ loaded' = load_state(disk)
  /\ steps' = <<Step("load_state", "ok")>>
  /\ pc' = "if_eliky"
  /\ UNCHANGED <<clock, disk, last, attempts, found_since>>

\* main, line 287.
MainIfEliky ==
  /\ pc = "if_eliky"
  /\ pc' = IF CHECK_SOURCE \in {"eliky", "all"} THEN "eliky" ELSE "if_unci"
  /\ UNCHANGED <<clock, disk, CHECK_SOURCE, state, loaded, steps, last, attempts, found_since>>

\* main, line 288.
MainEliky ==
  /\ pc = "eliky"
  /\ pc' = "if_unci"
  /\ \E fetch \in ElikyFetches :
       \E delivered \in Deliveries(Len(check_eliky(state, fetch, AllDelivered).sent)) :
         LET r == check_eliky(state, fetch, delivered) IN
         /\ state' = r.state
         /\ steps' = Append(steps, Step("check_eliky", r.outcome))
         /\ last' = [src |-> "eliky", fetch |-> fetch, outcome |-> r.outcome, sent |-> r.sent]
         /\ Record("eliky", r.sent)
  /\ UNCHANGED <<clock, disk, CHECK_SOURCE, loaded, found_since>>

\* Variant: line 290 is an elif of line 287.
MainElifUnci ==
  /\ pc = "if_unci"
  /\ pc' = IF CHECK_SOURCE = "unci" THEN "unci" ELSE "save"
  /\ last' = NoCheck
  /\ UNCHANGED <<clock, disk, CHECK_SOURCE, state, loaded, steps, attempts, found_since>>

\* main, line 290.
MainIfUnci ==
  /\ pc = "if_unci"
  /\ pc' = IF CHECK_SOURCE \in {"unci", "all"} THEN "unci" ELSE "save"
  /\ last' = NoCheck
  /\ UNCHANGED <<clock, disk, CHECK_SOURCE, state, loaded, steps, attempts, found_since>>

\* main, line 291.
MainUnci ==
  /\ pc = "unci"
  /\ pc' = "save"
  /\ \E fetch \in UnciFetches :
       \E delivered \in Deliveries(Len(check_unci(state, clock, fetch, AllDelivered).sent)) :
         LET r == check_unci(state, clock, fetch, delivered) IN
         /\ state' = r.state
         /\ steps' = Append(steps, Step("check_unci", r.outcome))
         /\ last' = [src |-> "unci", fetch |-> IF r.fetched THEN fetch ELSE NoFetch,
                     outcome |-> r.outcome, sent |-> r.sent]
         /\ Record("unci", r.sent)
         /\ found_since' = IF r.raised
                           THEN <<isocalendar(clock).year, isocalendar(clock).week>>
                           ELSE IF ~r.state.unci_found_this_week THEN None
                           ELSE found_since
  /\ UNCHANGED <<clock, disk, CHECK_SOURCE, loaded>>

\* main, line 293.
MainSave ==
  /\ pc = "save"
  /\ disk' = save_state(state)
  /\ steps' = Append(steps, Step("save_state", "ok"))
  /\ last' = NoCheck
  /\ pc' = "done"
  /\ UNCHANGED <<clock, CHECK_SOURCE, state, loaded, attempts, found_since>>

\* main returns and the process exits (line 294).
MainExit ==
  /\ pc = "done"
  /\ pc' = "idle"
  /\ CHECK_SOURCE' = "none"
  /\ state' = default_state
  /\ loaded' = default_state
  /\ steps' = <<>>
  /\ last' = NoCheck
  /\ UNCHANGED <<clock, disk, attempts, found_since>>

Next ==
  \/ Tick
  \/ MainLoad
  \/ MainIfEliky
  \/ MainEliky
  \/ MainIfUnci
  \/ MainUnci
  \/ MainSave
  \/ MainExit

Spec == Init /\ [][Next]_vars

\* ================================================================ the state file
\* The run of main() over a state file of any shape, with save_state in the steps the
\* operating system sees and a process that can be interrupted.  pc has three more
\* positions: dump (inside save_state, the file open), aborted (load_state raised) and
\* killed (the process was interrupted).

\* The files a run can find: none, a text that is no JSON, the bare list of an early
\* version, documents written before the flag or the marker existed, a full document.
Files ==
  { [exists |-> FALSE, data |-> default_state],
    [exists |-> TRUE, data |-> not_json("<html>")],
    [exists |-> TRUE, data |-> json_list({"X|5|01.01"})],
    [exists |-> TRUE, data |-> [eliky_ids |-> {"X|5|01.01"},
                                unci_ids |-> {"Abiraterone|7|12.27|B1|v1"},
                                unci_update_date |-> "v1"]],
    [exists |-> TRUE, data |-> [eliky_ids |-> {"Y|3|01.01"},
                                unci_ids |-> {"Abiraterone|7|12.27|B1|v1"}]],
    [exists |-> TRUE, data |-> [eliky_ids |-> {}, unci_ids |-> {}, unci_update_date |-> "v2",
                                unci_found_this_week |-> TRUE, unci_week_number |-> 1]] }

InitFiles ==
  /\ clock \in {0, 1}
  /\ disk \in Files
  /\ pc = "idle"
  /\ CHECK_SOURCE = "none"
  /\ state = default_state
  /\ loaded = default_state
  /\ steps = <<>>
  /\ last = NoCheck
  /\ attempts = <<>>
  /\ found_since = None

\* main, line 285, when json.load raises (line 48): nothing catches the exception.
MainLoadRaises ==
  /\ pc = "idle"
  /\ load_state(disk) = JSONDecodeError
  /\ \E sel \in Selectors : CHECK_SOURCE' = sel
  /\ steps' = <<Step("load_state", "error")>>
  /\ pc' = "aborted"
  /\ UNCHANGED <<clock, disk, state, loaded, last, attempts, found_since>>

\* save_state, line 65: open(STATE_FILE, "w") creates the file or cuts it to length 0.
SaveOpen ==
  /\ pc = "save"
  /\ disk' = [exists |-> TRUE, data |-> not_json("")]
  /\ last' = NoCheck
  /\ pc' = "dump"
  /\ UNCHANGED <<clock, CHECK_SOURCE, state, loaded, steps, attempts, found_since>>

\* save_state, line 66: json.dump writes the text piece by piece; a full buffer goes to
\* the file before the rest is written.
SaveFlush ==
  /\ pc = "dump"
  /\ disk.data = not_json("")
  /\ disk' = [exists |-> TRUE, data |-> not_json("{")]
  /\ UNCHANGED <<clock, pc, CHECK_SOURCE, state, loaded, steps, last, attempts, found_since>>

\* save_state, lines 65-66: leaving the with block writes what is left and closes the file.
SaveClose ==
  /\ pc = "dump"
  /\ disk' = save_state(state)
  /\ steps' = Append(steps, Step("save_state", "ok"))
  /\ pc' = "done"
  /\ UNCHANGED <<clock, CHECK_SOURCE, state, loaded, last, attempts, found_since>>

\* The process is interrupted (killed, power lost) inside save_state.
Kill ==
  /\ pc = "dump"
  /\ steps' = Append(steps, Step("save_state", "killed"))
  /\ last' = NoCheck
  /\ pc' = "killed"
  /\ UNCHANGED <<clock, disk, CHECK_SOURCE, state, loaded, attempts, found_since>>

\* The process is gone after an exception or an interruption.
ProcessEnds ==
  /\ pc \in {"aborted", "killed"}
  /\ pc' = "idle"
  /\ CHECK_SOURCE' = "none"
  /\ state' = default_state
  /\ loaded' = default_state
  /\ steps' = <<>>
  /\ last' = NoCheck
  /\ UNCHANGED <<clock, disk, attempts, found_since>>

NextFiles ==
  \/ MainLoad
  \/ MainLoadRaises
  \/ MainIfEliky
  \/ MainEliky
  \/ MainIfUnci
  \/ MainUnci
  \/ SaveOpen
  \/ SaveFlush
  \/ SaveClose
  \/ MainExit
  \/ Kill
  \/ ProcessEnds

SpecFiles == InitFiles /\ [][NextFiles]_vars

\* ================================================================ one check
\* One check on a stored document of any content, fetching from a page with two batches
\* of the medicine: the order and the content of what one check sends.
UnciBatches ==
  UnciRecords \cup
  { [name |-> "Abiraterone", subst |-> "abiraterone", storage |-> "A", order |-> "1",
     unit |-> "pack", quantity |-> "7", expiry |-> "12.27", form |-> "tab", batch |-> "B2"] }

UnciBatchFetches ==
  {[status |-> "ok", update_date |-> m, records |-> rs] :
     m \in Markers, rs \in SeqsUpTo(UnciBatches, MaxRecs)}

\* The documents earlier runs of the week w can have saved: any ledgers of fingerprints
\* of the records the pages can show, any marker, the flag down.
StoredDocs(w) ==
  {[eliky_ids |-> e, unci_ids |-> u, unci_update_date |-> m,
    unci_found_this_week |-> FALSE, unci_week_number |-> w] :
     e \in SUBSET {eliky_id(r) : r \in ElikyRecords},
     u \in SUBSET {unci_id(r, mk) : r \in UnciBatches, mk \in Markers},
     m \in Markers}

\* A run of one source that has loaded a stored document (main, lines 285-290), on the
\* Thursday or the Friday of the first week.
InitCheck ==
  /\ clock \in {0, 1}
  /\ \E doc \in StoredDocs(current_week(clock)) :
       /\ disk = save_state(doc)
       /\ state = doc
       /\ loaded = doc
  /\ CHECK_SOURCE \in {"eliky", "unci"}
  /\ pc = CHECK_SOURCE
  /\ steps = <<Step("load_state", "ok")>>
  /\ last = NoCheck
  /\ attempts = <<>>
  /\ found_since = None

\* main, line 291, on the page with two batches.
MainUnciBatches ==
  /\ pc = "unci"
  /\ pc' = "save"
  /\ \E fetch \in UnciBatchFetches :
       \E delivered \in Deliveries(Len(check_unci(state, clock, fetch, AllDelivered).sent)) :
         LET r == check_unci(state, clock, fetch, delivered) IN
         /\ state' = r.state
         /\ steps' = Append(steps, Step("check_unci", r.outcome))
         /\ last' = [src |-> "unci", fetch |-> IF r.fetched THEN fetch ELSE NoFetch,
                     outcome |-> r.outcome, sent |-> r.sent]
         /\ Record("unci", r.sent)
  /\ UNCHANGED <<clock, disk, CHECK_SOURCE, loaded, found_since>>

NextCheck ==
  \/ MainEliky
  \/ MainUnciBatches

SpecCheck == InitCheck /\ [][NextCheck]_vars

\* ================================================================ overlapping runs
\* Two processes run main() on the same state.json, as the scheduled job of each source
\* does: nothing in main keeps the load of one from falling between the load and the
\* save of the other.  Here pc, CHECK_SOURCE, state and loaded are functions of the
\* process, steps lists the processes in the order they called load_state, and the
\* clock stands still.
Procs == {"eliky_job", "unci_job"}

\* The CHECK_SOURCE each job sets for its process.
JobSource(p) == IF p = "eliky_job" THEN "eliky" ELSE "unci"

InitOverlap ==
  /\ clock = 0
  /\ disk = [exists |-> FALSE, data |-> default_state]
  /\ pc = [p \in Procs |-> "idle"]
  /\ CHECK_SOURCE = [p \in Procs |-> "none"]
  /\ state = [p \in Procs |-> default_state]
  /\ loaded = [p \in Procs |-> default_state]
  /\ steps = <<>>
  /\ last = NoCheck
  /\ attempts = <<>>
  /\ found_since = None

\* main, line 285, in process p.
Load(p) ==
  /\ pc[p] = "idle"
  /\ Len(steps) < MaxRuns
  /\ steps' = Append(steps, Step("load_state", p))
  /\ CHECK_SOURCE' = [CHECK_SOURCE EXCEPT ![p] = JobSource(p)]
  /\ state' = [state EXCEPT ![p] = load_state(disk)]
  /\ loaded' = [loaded EXCEPT ![p] = load_state(disk)]
  /\ pc' = [pc EXCEPT ![p] = "check"]
  /\ UNCHANGED <<clock, disk, last, attempts, found_since>>

\* main, lines 287-288, in process p.
CheckEliky(p) ==
  /\ pc[p] = "check"
  /\ CHECK_SOURCE[p] = "eliky"
  /\ pc' = [pc EXCEPT ![p] = "save"]
  /\ \E fetch \in ElikyFetches :
       \E delivered \in Deliveries(Len(check_eliky(state[p], fetch, AllDelivered).sent)) :
         LET r == check_eliky(state[p], fetch, delivered) IN
         /\ state' = [state EXCEPT ![p] = r.state]
         /\ Record("eliky", r.sent)
  /\ UNCHANGED <<clock, disk, CHECK_SOURCE, loaded, steps, last, found_since>>

\* main, lines 290-291, in process p.
CheckUnci(p) ==
  /\ pc[p] = "check"
  /\ CHECK_SOURCE[p] = "unci"
  /\ pc' = [pc EXCEPT ![p] = "save"]
  /\ \E fetch \in UnciFetches :
       \E delivered \in Deliveries(Len(check_unci(state[p], clock, fetch, AllDelivered).sent)) :
         LET r == check_unci(state[p], clock, fetch, delivered) IN
         /\ state' = [state EXCEPT ![p] = r.state]
         /\ Record("unci", r.sent)
  /\ UNCHANGED <<clock, disk, CHECK_SOURCE, loaded, steps, last, found_since>>

\* main, line 293, in process p.
Save(p) ==
  /\ pc[p] = "save"
  /\ disk' = save_state(state[p])
  /\ pc' = [pc EXCEPT ![p] = "done"]
  /\ UNCHANGED <<clock, CHECK_SOURCE, state, loaded, steps, last, attempts, found_since>>

\* Process p exits (line 294).
Exit(p) ==
  /\ pc[p] = "done"
  /\ pc' = [pc EXCEPT ![p] = "idle"]
  /\ CHECK_SOURCE' = [CHECK_SOURCE EXCEPT ![p] = "none"]
  /\ state' = [state EXCEPT ![p] = default_state]
  /\ loaded' = [loaded EXCEPT ![p] = default_state]
  /\ UNCHANGED <<clock, disk, steps, last, attempts, found_since>>

NextOverlap ==
  \/ \E p \in Procs : Load(p)
  \/ \E p \in Procs : CheckEliky(p)
  \/ \E p \in Procs : CheckUnci(p)
  \/ \E p \in Procs : Save(p)
  \/ \E p \in Procs : Exit(p)

SpecOverlap == InitOverlap /\ [][NextOverlap]_vars

\* ================================================================ properties
ledger(doc, src) == IF src = "eliky" THEN doc.eliky_ids ELSE doc.unci_ids

\* The fingerprint the check of src gives the i-th record of the list it fetched.
fetched_id(i) ==
  IF last.src = "eliky" THEN eliky_id(last.fetch.records[i])
  ELSE unci_id(last.fetch.records[i], last.fetch.update_date)

RecordSends(rid) ==
  {i \in DOMAIN last.sent : last.sent[i].kind = "record" /\ last.sent[i].rid = rid}

InRun == pc \in {"if_eliky", "eliky", "if_unci", "unci", "save"}

\* ---------------------------------------------------------------- C1
\* C1: over all runs, send_telegram is called at most once for a <<source, fingerprint>>;
\* a check calls it for no fingerprint of the ledger the run loaded, and exactly once for
\* a new fingerprint, however often the fetched list holds it.
C1_AtMostOncePerFingerprint ==
  /\ \A k \in DOMAIN attempts : attempts[k] <= 1
  /\ last.src # "" =>
       /\ \A i \in DOMAIN last.sent :
            last.sent[i].kind = "record" => last.sent[i].rid \notin ledger(loaded, last.src)
       /\ \A i \in DOMAIN last.fetch.records :
            Cardinality(RecordSends(fetched_id(i))) =
              IF fetched_id(i) \in ledger(loaded, last.src) THEN 0 ELSE 1

\* A check whose fetched list holds one new fingerprint twice, in a run that loaded a
\* ledger of the other source whose fingerprints were notified by an earlier run.
C1_Witness ==
  /\ last.src = "unci"
  /\ Len(last.fetch.records) = 2
  /\ fetched_id(1) = fetched_id(2)
  /\ fetched_id(1) \notin loaded.unci_ids
  /\ Len(last.sent) = 1
  /\ loaded.eliky_ids # {}
  /\ \E k \in DOMAIN attempts : k[1] = "eliky" /\ attempts[k] = 1

\* ---------------------------------------------------------------- C2
\* C2: the ledgers only grow: in a run the ledgers of `state` contain the loaded ones,
\* whatever the checks did, and no step takes a fingerprint out of state.json.
C2_LedgerGrows ==
  /\ [](pc # "idle" => /\ loaded.eliky_ids \subseteq state.eliky_ids
                       /\ loaded.unci_ids \subseteq state.unci_ids)
  /\ [](pc = "done" => /\ loaded.eliky_ids \subseteq disk.data.eliky_ids
                       /\ loaded.unci_ids \subseteq disk.data.unci_ids)
  /\ [][/\ disk.data.eliky_ids \subseteq disk'.data.eliky_ids
        /\ disk.data.unci_ids \subseteq disk'.data.unci_ids]_vars

\* A finished run that loaded non-empty ledgers, whose unci fetch failed and whose eliky
\* check found a new record.
C2_Witness ==
  /\ pc = "done"
  /\ loaded.eliky_ids # {}
  /\ loaded.unci_ids # {}
  /\ Step("check_unci", "error") \in {steps[i] : i \in DOMAIN steps}
  /\ disk.data.eliky_ids # loaded.eliky_ids

\* ---------------------------------------------------------------- C3
Calls == {steps[i].call : i \in DOMAIN steps}

Outcomes == {steps[i] : i \in DOMAIN steps}

now_week == current_week(clock)

\* The parts of C3 about the other source and about the end of the run: in a run of both
\* sources both checks are made whatever their outcomes, an unci check that follows a
\* failed eliky fetch stores what it fetched, and the run ends with save_state writing
\* `state`.
C3_OtherSourceAndSave ==
  /\ (pc \in {"save", "done"} /\ CHECK_SOURCE = "all") =>
       {"check_eliky", "check_unci"} \subseteq Calls
  /\ (last.src = "unci" /\ last.outcome = "ok" /\ Step("check_eliky", "error") \in Outcomes) =>
       /\ state.unci_update_date = last.fetch.update_date
       /\ \A i \in DOMAIN last.fetch.records : fetched_id(i) \in state.unci_ids
  /\ last.outcome = "error" => pc \in {"if_unci", "save"}
  /\ pc = "done" =>
       /\ steps[Len(steps)] = Step("save_state", "ok")
       /\ disk = [exists |-> TRUE, data |-> state]

C3_ElikyFailure ==
  (Step("check_eliky", "error") \in Outcomes) => state.eliky_ids = loaded.eliky_ids

\* C3 as stated: after a failed fetch the source's ledger, marker and schedule flag are
\* what the run loaded.
C3_Original ==
  /\ C3_OtherSourceAndSave
  /\ C3_ElikyFailure
  /\ (Step("check_unci", "error") \in Outcomes) =>
       /\ state.unci_ids = loaded.unci_ids
       /\ state.unci_update_date = loaded.unci_update_date
       /\ state.unci_found_this_week = loaded.unci_found_this_week
       /\ state.unci_week_number = loaded.unci_week_number

\* C3 (amended): after a failed fetch the source's ledger and page marker are what the
\* run loaded and the schedule flag is what the gate's week rollover made of the loaded
\* one (unchanged when the loaded week number is the current week, found = false and
\* weekNumber = current week otherwise); the check of unci leaves the eliky ledger alone,
\* the other selected source is still checked, and the run ends with save_state.
C3_FetchFailureIsolated ==
  /\ [](/\ C3_OtherSourceAndSave
        /\ C3_ElikyFailure
        /\ (Step("check_unci", "error") \in Outcomes) =>
             /\ state.unci_ids = loaded.unci_ids
             /\ state.unci_update_date = loaded.unci_update_date
             /\ state.unci_found_this_week =
                  (loaded.unci_found_this_week /\ loaded.unci_week_number = now_week)
             /\ state.unci_week_number = now_week)
  /\ [][pc = "unci" => state'.eliky_ids = state.eliky_ids]_vars

\* A finished run of both sources in a new week: the unci fetch failed with a raised flag
\* of an earlier week loaded, and the eliky check found a new record.
C3_Witness ==
  /\ pc = "done"
  /\ Outcomes = {Step("load_state", "ok"), Step("check_eliky", "ok"),
                 Step("check_unci", "error"), Step("save_state", "ok")}
  /\ loaded.unci_found_this_week
  /\ loaded.unci_week_number # now_week
  /\ loaded.unci_ids # {}
  /\ state.eliky_ids # loaded.eliky_ids

\* ---------------------------------------------------------------- C4
this_week == <<isocalendar(clock).year, isocalendar(clock).week>>

\* C4: the flag never leaks across week boundaries: the gate says skip only if the flag
\* was raised in the calendar week (ISO year and week) of the run.
C4_FlagNeverLeaks ==
  (last.src = "unci" /\ last.outcome = "skip") => found_since = this_week

\* ---------------------------------------------------------------- C5
\* C5: the gate says skip exactly when today is Friday and the flag, after the week
\* rollover, is up, that is when the loaded flag is up for the current week number; in
\* every other case fetch_unci is called.
C5_GateDecision ==
  last.src = "unci" =>
    /\ last.outcome = "skip" <=>
         /\ isocalendar(clock).weekday = FRIDAY
         /\ loaded.unci_found_this_week
         /\ loaded.unci_week_number = now_week
    /\ last.outcome # "skip" => last.fetch.status \in {"ok", "error"}

\* The gate let a check through on a Thursday with the flag up for the current week.
C5_Witness ==
  /\ last.src = "unci"
  /\ isocalendar(clock).weekday # FRIDAY
  /\ loaded.unci_found_this_week
  /\ loaded.unci_week_number = now_week
  /\ last.fetch.status = "ok"

\* ---------------------------------------------------------------- C6
\* C6: when the gate says skip, fetch_unci is not called, nothing is sent and the unci
\* fields of the state are what they were before check_unci.
C6_SkipChangesNothing ==
  (last.src = "unci" /\ last.outcome = "skip") =>
    /\ last.fetch = NoFetch
    /\ last.sent = <<>>
    /\ state.unci_ids = loaded.unci_ids
    /\ state.unci_update_date = loaded.unci_update_date
    /\ state.unci_found_this_week = loaded.unci_found_this_week
    /\ state.unci_week_number = loaded.unci_week_number

\* The gate said skip in a run that loaded a non-empty unci ledger.
C6_Witness ==
  /\ last.src = "unci"
  /\ last.outcome = "skip"
  /\ loaded.unci_ids # {}
  /\ loaded.unci_update_date # ""

\* ---------------------------------------------------------------- C7
stored_marker == loaded.unci_update_date

fetched_marker == last.fetch.update_date

\* The flag as the gate leaves it: the loaded flag, reset when the week number changed.
gate_found == loaded.unci_found_this_week /\ loaded.unci_week_number = now_week

UnciFetched == last.src = "unci" /\ last.outcome = "ok"

\* C7 as stated: after a successful fetch, a fetched marker that differs from a non-empty
\* stored marker raises the flag for the current week, whatever the records; with an
\* empty stored marker found is left false.
C7_Original ==
  UnciFetched =>
    /\ (fetched_marker # stored_marker /\ stored_marker # "") =>
         /\ state.unci_found_this_week
         /\ state.unci_week_number = now_week
    /\ stored_marker = "" => ~state.unci_found_this_week

\* C7 (amended): after a successful fetch, a non-empty fetched marker that differs from a
\* non-empty stored marker raises the flag for the current week, whatever the records;
\* when the stored marker is empty, the fetched marker is empty or the two are equal,
\* the flag is left as the gate left it (false in the first check ever made).
C7_FlagRaising ==
  UnciFetched =>
    /\ state.unci_week_number = now_week
    /\ state.unci_found_this_week =
         IF fetched_marker # "" /\ fetched_marker # stored_marker /\ stored_marker # ""
         THEN TRUE
         ELSE gate_found
    /\ loaded.unci_week_number = 0 => ~state.unci_found_this_week

\* The page changed from one marker to another and showed no record: the flag goes up.
C7_Witness ==
  /\ UnciFetched
  /\ last.fetch.records = <<>>
  /\ stored_marker = "v1"
  /\ fetched_marker = "v2"
  /\ ~gate_found
  /\ state.unci_found_this_week

\* ---------------------------------------------------------------- C8
PageSends == {i \in DOMAIN last.sent : last.sent[i].kind = "page"}

NoRecords == UnciFetched /\ last.fetch.records = <<>>

\* C8 as stated: no record and a fetched marker that differs from the stored one: exactly
\* one "page changed" message and the marker is stored; marker unchanged: no message.
C8_Original ==
  NoRecords =>
    /\ state.unci_update_date = fetched_marker
    /\ Len(last.sent) = IF fetched_marker # stored_marker THEN 1 ELSE 0
    /\ Cardinality(PageSends) = Len(last.sent)

\* C8 (amended): no record: exactly one "page changed" message is attempted when the
\* fetched marker is non-empty and differs from a non-empty stored marker, none otherwise
\* (first observation, page without marker, marker unchanged); in every case the fetched
\* marker is stored.
C8_PageChanged ==
  NoRecords =>
    /\ state.unci_update_date = fetched_marker
    /\ Len(last.sent) =
         IF fetched_marker # "" /\ fetched_marker # stored_marker /\ stored_marker # ""
         THEN 1 ELSE 0
    /\ Cardinality(PageSends) = Len(last.sent)
    /\ state.unci_ids = loaded.unci_ids

\* The page changed from one marker to another and showed no record: one message.
C8_Witness ==
  /\ NoRecords
  /\ stored_marker = "v1"
  /\ fetched_marker = "v2"
  /\ Cardinality(PageSends) = 1
  /\ state.unci_update_date = "v2"

\* ---------------------------------------------------------------- C9
FailedSends == {i \in DOMAIN last.sent : last.sent[i].kind = "record" /\ ~last.sent[i].ok}

\* C9: a send_telegram call that raises for a new record does not keep its fingerprint
\* out of the ledger: it is in the ledger of `state` after the check, the records after
\* it are still notified, and once the run has saved, every fingerprint send_telegram was
\* called for, whether the call returned or raised, is in state.json and is never the
\* subject of a second call.
C9_FailedDeliveryStillKnown ==
  /\ last.src # "" =>
       /\ \A i \in FailedSends : last.sent[i].rid \in ledger(state, last.src)
       /\ \A i \in DOMAIN last.fetch.records :
            \/ fetched_id(i) \in ledger(loaded, last.src)
            \/ RecordSends(fetched_id(i)) # {}
  /\ pc \in {"done", "idle"} =>
       \A k \in DOMAIN attempts : attempts[k] = 1 /\ k[2] \in ledger(disk.data, k[1])

\* The first of two new records could not be delivered and the second was still sent, in
\* a run that loaded a fingerprint notified before.
C9_Witness ==
  /\ last.src = "eliky"
  /\ Len(last.sent) = 2
  /\ ~last.sent[1].ok
  /\ last.sent[2].ok
  /\ loaded.unci_ids # {}

\* ---------------------------------------------------------------- C10
ExpectedCalls ==
  <<"load_state">>
  \o (IF CHECK_SOURCE \in {"eliky", "all"} THEN <<"check_eliky">> ELSE <<>>)
  \o (IF CHECK_SOURCE \in {"unci", "all"} THEN <<"check_unci">> ELSE <<>>)
  \o <<"save_state">>

\* C10: a run calls save_state exactly once, after the checks of all selected sources
\* and not before, whatever their outcomes and whatever CHECK_SOURCE is: until then
\* state.json is what the run loaded, afterwards it is `state`, and the run ends.
C10_SaveOnceAtEnd ==
  /\ InRun =>
       /\ "save_state" \notin Calls
       /\ load_state(disk) = loaded
  /\ pc = "done" =>
       /\ [i \in DOMAIN steps |-> steps[i].call] = ExpectedCalls
       /\ disk = [exists |-> TRUE, data |-> state]
       /\ ENABLED MainExit

\* A finished run of both sources whose eliky fetch failed and whose unci check was
\* skipped by the gate.
C10_Witness ==
  /\ pc = "done"
  /\ CHECK_SOURCE = "all"
  /\ steps = <<Step("load_state", "ok"), Step("check_eliky", "error"),
               Step("check_unci", "skip"), Step("save_state", "ok")>>

\* ---------------------------------------------------------------- C11
\* C11: save_state replaces the document atomically: when the process is interrupted
\* inside save_state, the file the next run reads is the complete new document or the
\* complete previous one (the one this run loaded), never an empty or cut one.
C11_SaveAtomic ==
  pc = "killed" =>
    \/ disk = [exists |-> TRUE, data |-> state]
    \/ ~json_load_raises(disk) /\ load_state(disk) = loaded

\* ---------------------------------------------------------------- C12
BeforeSave == pc \in {"if_eliky", "eliky", "if_unci", "unci", "save"}

\* C12: when state.json exists and json.load rejects it, load_state raises and the run
\* ends there: no check is called, nothing is sent and the file is left as it is; no run
\* goes on with a state made up for such a file.  When state.json does not exist, the
\* run goes on with the default document.
C12_CorruptStateAborts ==
  /\ [](pc = "aborted" => /\ json_load_raises(disk)
                          /\ steps = <<Step("load_state", "error")>>)
  /\ [](BeforeSave => /\ ~json_load_raises(disk)
                      /\ ~disk.exists => loaded = default_state)
  /\ [][(pc \in {"idle", "aborted"} /\ json_load_raises(disk)) =>
          /\ pc' \in {"idle", "aborted"}
          /\ disk' = disk
          /\ attempts' = attempts]_vars
  /\ [][(pc = "idle" /\ ~disk.exists /\ pc' # "idle") =>
          /\ pc' = "if_eliky"
          /\ state' = default_state]_vars

\* A run aborted on a file cut short by an interrupted save, after earlier runs had sent
\* notifications.
C12_Witness ==
  /\ pc = "aborted"
  /\ disk.data = not_json("{")
  /\ DOMAIN attempts # {}

\* ---------------------------------------------------------------- C13
\* C13: load_state reads the older shapes: a bare list becomes a document whose eliky
\* ledger is the list, with an empty unci ledger, marker "" and flag (false, 0); a
\* document without the flag fields gets (false, 0) and keeps its other members; a
\* document without the marker is checked as if the marker were "" (no flag raised, no
\* page message, the fetched marker stored); no such file makes load_state raise, every
\* step of the run can be taken, and the document saved holds every fingerprint loaded.
C13_LegacyReadable ==
  /\ (BeforeSave /\ disk.exists /\ isinstance_list(disk.data)) =>
       loaded = [eliky_ids |-> disk.data.list, unci_ids |-> {}, unci_update_date |-> "",
                 unci_found_this_week |-> FALSE, unci_week_number |-> 0]
  /\ (BeforeSave /\ disk.exists /\ ~isinstance_list(disk.data)) =>
       /\ DOMAIN loaded = DOMAIN disk.data \cup {"unci_found_this_week", "unci_week_number"}
       /\ \A k \in DOMAIN disk.data : loaded[k] = disk.data[k]
       /\ "unci_found_this_week" \notin DOMAIN disk.data => ~loaded.unci_found_this_week
       /\ "unci_week_number" \notin DOMAIN disk.data => loaded.unci_week_number = 0
  /\ (UnciFetched /\ "unci_update_date" \notin DOMAIN loaded) =>
       /\ PageSends = {}
       /\ state.unci_found_this_week = gate_found
       /\ state.unci_update_date = fetched_marker
  /\ pc = "aborted" => json_load_raises(disk)
  /\ BeforeSave => ENABLED (MainIfEliky \/ MainEliky \/ MainIfUnci \/ MainUnci \/ SaveOpen)
  /\ pc = "done" =>
       /\ loaded.eliky_ids \subseteq disk.data.eliky_ids
       /\ loaded.unci_ids \subseteq disk.data.unci_ids

\* A run that loaded a bare list has made both checks, found a new eliky record, and is
\* about to save.
C13_Witness ==
  /\ pc = "save"
  /\ disk.exists
  /\ isinstance_list(disk.data)
  /\ {Step("check_eliky", "ok"), Step("check_unci", "ok")} \subseteq Outcomes
  /\ loaded.eliky_ids # {}
  /\ state.eliky_ids # loaded.eliky_ids

\* ---------------------------------------------------------------- C14
\* The instants of the calendar week of the clock, from the clock on.
RestOfWeek ==
  {now \in clock..LastTick : /\ isocalendar(now).year = isocalendar(clock).year
                             /\ isocalendar(now).week = isocalendar(clock).week}

\* C14: a check is idempotent: after a check that fetched, the same check made again on
\* the saved state with the same fetched list (for unci the same marker, at any instant
\* of the same week) sends nothing and leaves the whole state document as it is.
C14_CheckIdempotent ==
  /\ (last.src = "eliky" /\ last.outcome = "ok") =>
       LET again == check_eliky(load_state(save_state(state)), last.fetch, AllDelivered)
       IN  again.sent = <<>> /\ again.state = state
  /\ (last.src = "unci" /\ last.outcome = "ok") =>
       \A now \in RestOfWeek :
         LET again == check_unci(load_state(save_state(state)), now, last.fetch, AllDelivered)
         IN  again.sent = <<>> /\ again.state = state

\* A Thursday check of unci that found a changed page with a new record: it sent a
\* message, raised the flag and changed ledger and marker.
C14_Witness ==
  /\ last.src = "unci"
  /\ last.outcome = "ok"
  /\ Cardinality(RestOfWeek) = 2
  /\ Len(last.sent) = 1
  /\ state.unci_found_this_week
  /\ ~loaded.unci_found_this_week
  /\ state.unci_ids # loaded.unci_ids
  /\ state.unci_update_date # loaded.unci_update_date

\* ---------------------------------------------------------------- C15
\* Where the fetched list first holds the fingerprint rid.
FirstIndex(rid) ==
  CHOOSE i \in DOMAIN last.fetch.records :
    /\ fetched_id(i) = rid
    /\ \A j \in 1..(i - 1) : fetched_id(j) # rid

\* C15: one check calls send_telegram for the new records in the order of the fetched
\* list: every call is for a fingerprint of the list, and of two calls the earlier is
\* for the record that comes earlier in the list, whether or not the earlier call raised.
C15_NotifiedInFetchOrder ==
  last.src # "" =>
    /\ \A i \in DOMAIN last.sent :
         last.sent[i].kind = "record" =>
           \E k \in DOMAIN last.fetch.records : fetched_id(k) = last.sent[i].rid
    /\ \A i, j \in DOMAIN last.sent :
         (i < j /\ last.sent[i].kind = "record" /\ last.sent[j].kind = "record") =>
           FirstIndex(last.sent[i].rid) < FirstIndex(last.sent[j].rid)

\* An unci check with two new batches on the page: the message for the first could not
\* be delivered, the one for the second was sent after it.
C15_Witness ==
  /\ last.src = "unci"
  /\ Len(last.sent) = 2
  /\ last.sent[1].rid = fetched_id(1)
  /\ last.sent[2].rid = fetched_id(2)
  /\ last.sent[1].rid # last.sent[2].rid
  /\ ~last.sent[1].ok
  /\ last.sent[2].ok
  /\ loaded.unci_ids # {}

\* ---------------------------------------------------------------- C16
\* C16: overlapping runs race on state.json.  A process about to save holds a document
\* computed from what it loaded alone: the fields of the source it did not check are the
\* loaded ones, whatever the other process has saved since.  Its save_state writes that
\* document over the file, so what the other process saved in between is gone; and a
\* check sends a message for every fetched fingerprint missing from the ledger it
\* loaded, also for one an earlier run has already notified.
C16_OverlapLosesUpdates ==
  /\ [](\A p \in Procs :
         pc[p] = "save" =>
           /\ JobSource(p) = "eliky" =>
                /\ state[p].unci_ids = loaded[p].unci_ids
                /\ state[p].unci_update_date = loaded[p].unci_update_date
                /\ state[p].unci_found_this_week = loaded[p].unci_found_this_week
                /\ state[p].unci_week_number = loaded[p].unci_week_number
           /\ JobSource(p) = "unci" => state[p].eliky_ids = loaded[p].eliky_ids)
  /\ [][\A p \in Procs :
          (pc[p] = "save" /\ pc'[p] = "done") => disk' = [exists |-> TRUE, data |-> state[p]]]_vars
  /\ [][\A p \in Procs :
          (pc[p] = "check" /\ pc'[p] = "save") =>
            \A k \in DOMAIN attempts' :
              (k \notin DOMAIN attempts \/ attempts'[k] # attempts[k]) <=>
                /\ k[1] = JobSource(p)
                /\ k[2] \in ledger(state'[p], k[1]) \ ledger(loaded[p], k[1])
                /\ k \in DOMAIN attempts => attempts[k] < 2]_vars

\* The eliky job is about to save a fingerprint it has notified for the second time: its
\* earlier save of that fingerprint was overwritten by the unci job, which had loaded
\* before it.
C16_Witness ==
  /\ pc["eliky_job"] = "save"
  /\ \E k \in DOMAIN attempts :
       /\ k[1] = "eliky"
       /\ attempts[k] = 2
       /\ k[2] \in state["eliky_job"].eliky_ids
       /\ k[2] \notin loaded["eliky_job"].eliky_ids
       /\ k[2] \notin disk.data.eliky_ids

\* ---------------------------------------------------------------- C17
\* C17: after every call of check_unci, whether it skipped, failed to fetch or fetched,
\* the stored week number is the current ISO week number, and the flag is up only if a
\* marker change was seen by some run since the stored week number took its present
\* value; the same holds of the document in state.json between runs.
C17_GateInvariant ==
  /\ last.src = "unci" =>
       /\ state.unci_week_number = now_week
       /\ state.unci_found_this_week =>
            /\ found_since # None
            /\ found_since[2] = state.unci_week_number
  /\ (pc = "idle" /\ disk.exists /\ disk.data.unci_found_this_week) =>
       /\ found_since # None
       /\ found_since[2] = disk.data.unci_week_number

\* A check whose fetch failed on the Thursday of a week with the number of the week, a
\* year earlier, in which the flag was raised: the flag is still up.
C17_Witness ==
  /\ last.src = "unci"
  /\ last.outcome = "error"
  /\ state.unci_found_this_week
  /\ found_since # None
  /\ found_since # this_week

\* ---------------------------------------------------------------- C18
\* C18: after every successful fetch of unci the stored marker is the fetched one, the
\* empty one included; and a check that finds a marker on the page while the stored
\* marker is empty is a first observation: it sends no "page changed" message and
\* leaves the flag as the gate left it, whatever markers were stored before.
C18_EmptyMarkerStored ==
  /\ UnciFetched =>
       /\ state.unci_update_date = fetched_marker
       /\ (stored_marker = "" /\ fetched_marker # "") =>
            /\ PageSends = {}
            /\ state.unci_found_this_week = gate_found
  /\ (pc = "done" /\ Step("check_unci", "ok") \in Outcomes) =>
       disk.data.unci_update_date = state.unci_update_date

\* The page shows marker v2 and no record, the stored marker is empty, and the ledger
\* holds a fingerprint made under v1, a marker stored before the page lost it: nothing
\* is sent and the flag stays down.
C18_Witness ==
  /\ UnciFetched
  /\ stored_marker = ""
  /\ fetched_marker = "v2"
  /\ \E r \in UnciRecords : unci_id(r, "v1") \in loaded.unci_ids
  /\ last.fetch.records = <<>>
  /\ last.sent = <<>>
  /\ ~state.unci_found_this_week

\* ---------------------------------------------------------------- C19
\* The markers under which a message for rec has been attempted, by this check or before.
ReportedUnder(rec) ==
  {m \in Markers :
     <<"unci", make_id(<<rec.name, rec.quantity, rec.expiry, rec.batch, m>>)>> \in DOMAIN attempts}

\* C19: for unci the page marker is part of the fingerprint: a check that fetched sends
\* a message for a record exactly when none was attempted for it under the fetched
\* marker before, also when one was under another marker.  For eliky the fingerprint
\* is hospital, quantity and date alone: a message is sent exactly when the ledger lacks
\* it, and over all runs at most one message is attempted for it, whatever region and
\* form the rows have.
C19_FingerprintFields ==
  /\ UnciFetched =>
       \A i \in DOMAIN last.fetch.records :
         LET rec == last.fetch.records[i]
             rid == make_id(<<rec.name, rec.quantity, rec.expiry, rec.batch, fetched_marker>>)
         IN  /\ fetched_marker \in ReportedUnder(rec)
             /\ attempts[<<"unci", rid>>] = 1
             /\ (RecordSends(rid) # {}) <=> rid \notin loaded.unci_ids
  /\ (last.src = "eliky" /\ last.outcome = "ok") =>
       \A i \in DOMAIN last.fetch.records :
         LET rec == last.fetch.records[i]
             rid == make_id(<<rec.hospital, rec.quantity, rec.date>>)
         IN  (RecordSends(rid) # {}) <=> rid \notin loaded.eliky_ids
  /\ \A k \in DOMAIN attempts :
       k[1] = "eliky" =>
         /\ attempts[k] = 1
         /\ k[2] \in {make_id(<<r.hospital, r.quantity, r.date>>) : r \in ElikyRecords}

\* A record already reported under one marker is fetched under another and notified
\* again, in a world where an eliky row was notified once.
C19_Witness ==
  /\ UnciFetched
  /\ Len(last.sent) = 1
  /\ last.sent[1].kind = "record"
  /\ Cardinality(ReportedUnder(last.fetch.records[1])) = 2
  /\ \E k \in DOMAIN attempts : k[1] = "eliky"

====
